---- MODULE Spec2Model ----
(***************************************************************************)
(* Model of the two services of the repository:                            *)
(*   - the notes service (src/app): an SQLite table of notes with create,  *)
(*     read, update, pin, vote and an admin-key protected delete;          *)
(*   - the chemistry API (src/): API-key authentication with roles, the    *)
(*     partial update of atoms, molecules and reactions, the in-memory     *)
(*     SimpleRateLimiter, the loading of the API keys and the routing.     *)
(* Each service has a specification with one action per handler, and a     *)
(* second one in which requests interleave at the granularity of their     *)
(* storage statements.                                                      *)
(***************************************************************************)
EXTENDS Integers, Sequences, FiniteSets, TLC

VARIABLES
    notes,      \* the notes table: id -> row
    nextId,     \* AUTOINCREMENT: the largest id ever assigned (sqlite_sequence)
    clock,      \* CURRENT_TIMESTAMP of the notes database
    resp,       \* the last request of the notes service and its response
    voteOk,     \* history: id -> number of vote requests answered 200
    vreq,       \* interleaved notes requests: slot -> local state
    dbLock,     \* interleaved notes requests: the connection holding SQLite's write lock
    raced,      \* history: two votes on one note were between SELECT and UPDATE together
    deleted,    \* history: the ids whose DELETE was answered 200
    env_keys,   \* the API_KEYS setting of the chemistry API, a text in pieces
    apiKeys,    \* VALID_API_KEYS of the chemistry API: key -> [name, role]
    atoms,      \* table atom: atom_id -> row
    molecules,  \* table molecule: molecule_id -> row
    reactions,  \* table reaction: reaction_id -> row
    cresp,      \* the chemistry request being answered and its response
    areq,       \* interleaved update_atom requests: session -> local state
    requests,   \* SimpleRateLimiter.requests: key -> list of timestamps
    requests_per_minute,    \* SimpleRateLimiter.requests_per_minute
    now,        \* time.time()
    calls,      \* check_rate_limit calls made so far
    ret,        \* the last check_rate_limit call and what it returned
    admitted,   \* history: key -> the timestamps of the calls that returned True
    threads     \* interleaved check_rate_limit calls: thread -> local state

notesVars == <<notes, nextId, clock, resp, voteOk, vreq, dbLock, raced, deleted>>

chemVars == <<env_keys, apiKeys, atoms, molecules, reactions, cresp, areq>>

limiterVars == <<requests, requests_per_minute, now, calls, ret, admitted, threads>>

vars == <<notesVars, chemVars, limiterVars>>

----------------------------------------------------------------------------
(* Bounds of the model *)

MaxNotes == 2       \* notes ever created
MaxVotes == 2       \* votes the stored notes may hold together
MaxCalls == 5       \* check_rate_limit calls
MaxLimit == 2       \* requests_per_minute of a SimpleRateLimiter
MaxRacingCalls == 3 \* check_rate_limit calls of the interleaved threads

(* Values of None (Python) / NULL (SQL) and of an absent row *)
None == "<None>"
NoRow == [absent |-> TRUE]
NoSlot == "none"

----------------------------------------------------------------------------
(* Notes service: configuration and inputs *)

\* src/app/core/security.py:7
API_KEY == "admin-secret"

DefaultAuthor == "Anonymous"

\* ids a request may name: every id that can exist and one that never does
NoteIds == 1..(MaxNotes + 1)

\* the X-API-Key header of a request: missing, not the admin key, the admin key
PresentedKeys == {None, "wrong-key", API_KEY}

\* NoteCreate payloads: author omitted (the schema default) or null
NoteCreates == [topic : {"T"}, content : {"C"}, author : {DefaultAuthor, None}]

\* NoteCreate payloads with the author omitted
PlainNoteCreates == [topic : {"T"}, content : {"C"}, author : {DefaultAuthor}]

\* NoteUpdate payloads in which each field is present in one and absent in another
RichNoteUpdates ==
    {[topic |-> None, content |-> None, author |-> None],
     [topic |-> "U", content |-> None, author |-> None],
     [topic |-> None, content |-> "V", author |-> "A"]}

\* NoteUpdate payloads: every field is optional and defaults to None
NoteUpdates == [topic : {None, "U"}, content : {None}, author : {None}]

----------------------------------------------------------------------------
(* SQL statements of the notes service *)

\* SELECT * FROM notes WHERE id = ?  -> fetchone()
SqlSelect(db, id) == IF id \in DOMAIN db THEN db[id] ELSE NoRow

\* INSERT INTO notes (topic, content, author) VALUES (?, ?, ?) with the
\* column defaults created_at = CURRENT_TIMESTAMP, votes = 0, pinned = 0
SqlInsert(db, id, topic, content, author, ts) ==
    [i \in DOMAIN db \cup {id} |->
        IF i = id
        THEN [id |-> id, topic |-> topic, content |-> content, author |-> author,
              created_at |-> ts, votes |-> 0, pinned |-> FALSE]
        ELSE db[i]]

\* (mutant) the UPDATE rewrites the row and resets its flag
SqlUpdateFields_ResetsPinned(db, id, upd) ==
    IF id \in DOMAIN db
    THEN [db EXCEPT ![id] =
            [@ EXCEPT !.topic = IF upd.topic # None THEN upd.topic ELSE @,
                      !.content = IF upd.content # None THEN upd.content ELSE @,
                      !.author = IF upd.author # None THEN upd.author ELSE @,
                      !.pinned = FALSE]]
    ELSE db

\* (mutant) the UPDATE has no WHERE clause
SqlUpdateFields_NoWhere(db, id, upd) ==
    [i \in DOMAIN db |->
        [db[i] EXCEPT !.topic = IF upd.topic # None THEN upd.topic ELSE @,
                      !.content = IF upd.content # None THEN upd.content ELSE @,
                      !.author = IF upd.author # None THEN upd.author ELSE @]]

\* UPDATE notes SET <present fields> WHERE id = ?
SqlUpdateFields(db, id, upd) ==
    IF id \in DOMAIN db
    THEN [db EXCEPT ![id] =
            [@ EXCEPT !.topic = IF upd.topic # None THEN upd.topic ELSE @,
                      !.content = IF upd.content # None THEN upd.content ELSE @,
                      !.author = IF upd.author # None THEN upd.author ELSE @]]
    ELSE db

\* (mutant) the pin toggles the flag instead of setting it
SqlSetPinned_Toggle(db, id) ==
    IF id \in DOMAIN db THEN [db EXCEPT ![id].pinned = ~@] ELSE db

\* UPDATE notes SET pinned = 1 WHERE id = ?
SqlSetPinned(db, id) ==
    IF id \in DOMAIN db THEN [db EXCEPT ![id].pinned = TRUE] ELSE db

\* (mutant) the vote adds two
SqlIncVotes_Two(db, id) ==
    IF id \in DOMAIN db THEN [db EXCEPT ![id].votes = @ + 2] ELSE db

\* UPDATE notes SET votes = votes + 1 WHERE id = ?
SqlIncVotes(db, id) ==
    IF id \in DOMAIN db THEN [db EXCEPT ![id].votes = @ + 1] ELSE db

\* DELETE FROM notes WHERE id = ?
SqlDelete(db, id) == [i \in DOMAIN db \ {id} |-> db[i]]

\* (mutant) the DELETE always reports a row
DeleteRowcount_One(db, id) == 1

\* cursor.rowcount of the DELETE
DeleteRowcount(db, id) == IF id \in DOMAIN db THEN 1 ELSE 0

\* the votes held by the stored notes (the model caps their sum)
RECURSIVE SumVotes(_, _)
SumVotes(db, ids) ==
    IF ids = {} THEN 0
    ELSE LET i == CHOOSE x \in ids : TRUE
         IN  db[i].votes + SumVotes(db, ids \ {i})

VotesCast(db) == SumVotes(db, DOMAIN db)

----------------------------------------------------------------------------
(* Responses *)

\* NoteResponse declares author: str, so a row whose author is NULL fails the
\* response validation and the request ends with 500
ValidNoteResponse(row) == row # NoRow /\ row.author # None

Detail(text) == [detail |-> text]

\* dict(row) returned through response_model=NoteResponse
NoteReply(op, id, okStatus, row) ==
    IF ValidNoteResponse(row)
    THEN [op |-> op, id |-> id, key |-> None, status |-> okStatus, body |-> row]
    ELSE [op |-> op, id |-> id, key |-> None, status |-> 500,
          body |-> Detail("Internal Server Error")]

ServerError(op, id) ==
    [op |-> op, id |-> id, key |-> None, status |-> 500,
     body |-> Detail("Internal Server Error")]

\* (mutant) a missing note is answered 200
NotFound_Ok(op, id, key) ==
    [op |-> op, id |-> id, key |-> key, status |-> 200, body |-> Detail("")]

\* raise HTTPException(status_code=404, detail="Note not found")
NotFound(op, id, key) ==
    [op |-> op, id |-> id, key |-> key, status |-> 404, body |-> Detail("Note not found")]

----------------------------------------------------------------------------
(* Notes service: one action per handler *)

\* (mutant) any presented key is accepted
NotesAuth_AnyKey(key) ==
    IF key = None THEN Detail("Not authenticated") ELSE Detail("ok")

\* (mutant) a wrong key is refused with the words of a missing one
NotesAuth_OneDetail(key) ==
    IF key = API_KEY THEN Detail("ok") ELSE Detail("Not authenticated")

\* get_api_key of the notes service behind APIKeyHeader(auto_error=True)
NotesAuth(key) ==
    IF key = None THEN Detail("Not authenticated")
    ELSE IF key = API_KEY THEN Detail("ok")
    ELSE Detail("Could not validate credentials")

\* (mutant) id INTEGER PRIMARY KEY without AUTOINCREMENT: the largest stored
\* rowid plus one
NewId_MaxRowid(db, seq) ==
    IF DOMAIN db = {} THEN 1
    ELSE (CHOOSE m \in DOMAIN db : \A i \in DOMAIN db : i <= m) + 1

\* id INTEGER PRIMARY KEY AUTOINCREMENT: one more than the largest id ever
\* assigned, which sqlite_sequence keeps across deletes
NewId(db, seq) == seq + 1

CreateNote(note) ==
    /\ nextId < MaxNotes
    /\ \E ts \in {clock + 1} :    \* each INSERT is stamped later than the one before
        LET id == NewId(notes, nextId)
            db == SqlInsert(notes, id, note.topic, note.content, note.author, ts)
        IN  /\ notes' = db
            /\ nextId' = id
            /\ clock' = ts
            /\ voteOk' = [i \in DOMAIN voteOk \cup {id} |-> IF i = id THEN 0 ELSE voteOk[i]]
            /\ resp' = NoteReply("create", id, 201, SqlSelect(db, id))
    /\ UNCHANGED <<vreq, dbLock, raced, deleted, chemVars, limiterVars>>

ReadNote(id) ==
    /\ resp' = IF SqlSelect(notes, id) = NoRow
               THEN NotFound("read", id, None)
               ELSE NoteReply("read", id, 200, SqlSelect(notes, id))
    /\ UNCHANGED <<notes, nextId, clock, voteOk, vreq, dbLock, raced, deleted, chemVars, limiterVars>>

\* the response with the NoteUpdate payload of its request
WithPayload(reply, upd) ==
    [f \in DOMAIN reply \cup {"upd"} |-> IF f = "upd" THEN upd ELSE reply[f]]

\* if not update_fields
NoFieldsPresent(upd) == upd.topic = None /\ upd.content = None /\ upd.author = None

\* (mutant) an update without fields is refused, as the chemistry API does
EmptyUpdateReply_400(id, existing) ==
    [op |-> "update", id |-> id, key |-> None, status |-> 400,
     body |-> Detail("No fields to update")]

\* return dict(existing_note)
EmptyUpdateReply(id, existing) == NoteReply("update", id, 200, existing)

UpdateNote(id, upd) ==
    LET existing == SqlSelect(notes, id)
        noFields == NoFieldsPresent(upd)
        db == SqlUpdateFields(notes, id, upd)
    IN  /\ IF existing = NoRow
           THEN /\ resp' = WithPayload(NotFound("update", id, None), upd)
                /\ notes' = notes
           ELSE IF noFields
           THEN /\ resp' = WithPayload(EmptyUpdateReply(id, existing), upd)
                /\ notes' = notes
           ELSE /\ notes' = db
                /\ resp' = WithPayload(NoteReply("update", id, 200, SqlSelect(db, id)), upd)
        /\ UNCHANGED <<nextId, clock, voteOk, vreq, dbLock, raced, deleted, chemVars, limiterVars>>

PinNote(id) ==
    LET db == SqlSetPinned(notes, id)
    IN  /\ IF SqlSelect(notes, id) = NoRow
           THEN /\ resp' = NotFound("pin", id, None)
                /\ notes' = notes
           ELSE /\ notes' = db
                /\ resp' = NoteReply("pin", id, 200, SqlSelect(db, id))
        /\ UNCHANGED <<nextId, clock, voteOk, vreq, dbLock, raced, deleted, chemVars, limiterVars>>

DeleteNote(id, key) ==
    /\ IF NotesAuth(key) # Detail("ok")
       THEN /\ resp' = [op |-> "delete", id |-> id, key |-> key, status |-> 403,
                        body |-> NotesAuth(key)]
            /\ notes' = notes
            /\ deleted' = deleted
       ELSE IF DeleteRowcount(notes, id) = 0
       THEN /\ resp' = NotFound("delete", id, key)
            /\ notes' = notes
            /\ deleted' = deleted
       ELSE /\ notes' = SqlDelete(notes, id)
            /\ resp' = [op |-> "delete", id |-> id, key |-> key, status |-> 200,
                        body |-> [message |-> "Note deleted successfully"]]
            /\ deleted' = deleted \cup {id}
    /\ UNCHANGED <<nextId, clock, voteOk, vreq, dbLock, raced, chemVars, limiterVars>>

VoteNote(id) ==
    LET db == SqlIncVotes(notes, id)
        reply == NoteReply("vote", id, 200, SqlSelect(db, id))
    IN  /\ IF SqlSelect(notes, id) = NoRow
           THEN /\ resp' = NotFound("vote", id, None)
                /\ notes' = notes
                /\ voteOk' = voteOk
           ELSE /\ VotesCast(notes) < MaxVotes
                /\ notes' = db
                /\ resp' = reply
                /\ voteOk' = IF reply.status = 200
                             THEN [voteOk EXCEPT ![id] = @ + 1] ELSE voteOk
        /\ UNCHANGED <<nextId, clock, vreq, dbLock, raced, deleted, chemVars, limiterVars>>

\* ORDER BY created_at DESC
RECURSIVE OrderByCreatedDesc(_, _)
OrderByCreatedDesc(db, ids) ==
    IF ids = {} THEN << >>
    ELSE LET latest == CHOOSE i \in ids : \A j \in ids : db[j].created_at <= db[i].created_at
         IN  <<db[latest]>> \o OrderByCreatedDesc(db, ids \ {latest})

\* GET /notes without filters, through response_model=List[NoteResponse]
ReadNotes ==
    /\ resp' = IF \A i \in DOMAIN notes : ValidNoteResponse(notes[i])
               THEN [op |-> "list", id |-> 0, key |-> None, status |-> 200,
                     body |-> OrderByCreatedDesc(notes, DOMAIN notes)]
               ELSE ServerError("list", 0)
    /\ UNCHANGED <<notes, nextId, clock, voteOk, vreq, dbLock, raced, deleted,
                   chemVars, limiterVars>>

NotesInit ==
    /\ notes = << >>
    /\ nextId = 0
    /\ clock = 0
    /\ resp = [op |-> "start", id |-> 0, key |-> None, status |-> 0, body |-> Detail("")]
    /\ voteOk = << >>
    /\ vreq = << >>
    /\ dbLock = NoSlot
    /\ raced = FALSE
    /\ deleted = {}

NotesNext ==
    \/ \E note \in NoteCreates : CreateNote(note)
    \/ \E id \in NoteIds : ReadNote(id)
    \/ \E id \in NoteIds, upd \in NoteUpdates : UpdateNote(id, upd)
    \/ \E id \in NoteIds : PinNote(id)
    \/ \E id \in NoteIds, key \in PresentedKeys : DeleteNote(id, key)
    \/ \E id \in NoteIds : VoteNote(id)
    \/ ReadNotes


----------------------------------------------------------------------------
(* Notes service: vote requests interleaved at their storage statements.   *)
(* Every request has its own connection (get_db); SQLite lets one          *)
(* connection at a time hold the write lock, from its first UPDATE to its  *)
(* commit, and the other connections read the committed table meanwhile.   *)

\* the connections that serve requests at the same time
VoteSlots == {"a", "b"}

IdleSlot == [pc |-> "idle", id |-> 0, row |-> NoRow, txn |-> << >>]

InFlight == Cardinality({s \in VoteSlots : vreq[s].pc # "idle"})

\* (mutant) the increment is computed in the handler from the row it fetched
VoteStatement_ReadModifyWrite(db, id, fetched) ==
    IF id \in DOMAIN db THEN [db EXCEPT ![id].votes = fetched.votes + 1] ELSE db

\* cursor.execute("UPDATE notes SET votes = votes + 1 WHERE id = ?"): the
\* statement adds to the stored value, not to the row fetched before
VoteStatement(db, id, fetched) == SqlIncVotes(db, id)

\* the existence check: SELECT, fetchone(), 404 when there is no row
VoteSelect(s, id) ==
    /\ vreq[s].pc = "idle"
    /\ VotesCast(notes) + InFlight < MaxVotes
    /\ IF SqlSelect(notes, id) = NoRow
       THEN /\ resp' = NotFound("vote", id, None)
            /\ vreq' = vreq
       ELSE /\ vreq' = [vreq EXCEPT ![s] = [pc |-> "selected", id |-> id,
                                            row |-> SqlSelect(notes, id), txn |-> << >>]]
            /\ resp' = resp
    /\ raced' = (raced \/ (SqlSelect(notes, id) # NoRow /\
                            \E o \in VoteSlots \ {s} :
                                vreq[o].pc = "selected" /\ vreq[o].id = id))
    /\ UNCHANGED <<notes, nextId, clock, voteOk, dbLock, deleted, chemVars, limiterVars>>

\* the UPDATE opens the write transaction of this connection
VoteUpdate(s) ==
    /\ vreq[s].pc = "selected"
    /\ dbLock = NoSlot
    /\ dbLock' = s
    /\ vreq' = [vreq EXCEPT ![s].pc = "updated",
                            ![s].txn = VoteStatement(notes, vreq[s].id, vreq[s].row)]
    /\ UNCHANGED <<notes, nextId, clock, voteOk, resp, raced, deleted, chemVars, limiterVars>>

\* the UPDATE finds the write lock taken until the busy timeout runs out:
\* sqlite3.OperationalError, not handled, answered 500
VoteBusy(s) ==
    /\ vreq[s].pc = "selected"
    /\ dbLock \notin {NoSlot, s}
    /\ vreq' = [vreq EXCEPT ![s] = IdleSlot]
    /\ resp' = ServerError("vote", vreq[s].id)
    /\ UNCHANGED <<notes, nextId, clock, voteOk, dbLock, raced, deleted, chemVars, limiterVars>>

\* conn.commit()
VoteCommit(s) ==
    /\ vreq[s].pc = "updated"
    /\ dbLock = s
    /\ notes' = vreq[s].txn
    /\ dbLock' = NoSlot
    /\ vreq' = [vreq EXCEPT ![s].pc = "committed", ![s].txn = << >>]
    /\ UNCHANGED <<nextId, clock, voteOk, resp, raced, deleted, chemVars, limiterVars>>

\* the read-back SELECT and the response; dict(None) raises when the row is gone
VoteReadBack(s) ==
    /\ vreq[s].pc = "committed"
    /\ LET id == vreq[s].id
           reply == IF SqlSelect(notes, id) = NoRow
                    THEN ServerError("vote", id)
                    ELSE NoteReply("vote", id, 200, SqlSelect(notes, id))
       IN  /\ resp' = reply
           /\ voteOk' = IF reply.status = 200
                        THEN [voteOk EXCEPT ![id] = @ + 1] ELSE voteOk
    /\ vreq' = [vreq EXCEPT ![s] = IdleSlot]
    /\ UNCHANGED <<notes, nextId, clock, dbLock, raced, deleted, chemVars, limiterVars>>

NotesConcInit ==
    /\ notes = << >>
    /\ nextId = 0
    /\ clock = 0
    /\ resp = [op |-> "start", id |-> 0, key |-> None, status |-> 0, body |-> Detail("")]
    /\ voteOk = << >>
    /\ vreq = [s \in VoteSlots |-> IdleSlot]
    /\ dbLock = NoSlot
    /\ raced = FALSE
    /\ deleted = {}

\* INSERT and DELETE are write transactions too: they wait for the write lock
NotesConcNext ==
    \/ dbLock = NoSlot /\ \E note \in NoteCreates : CreateNote(note)
    \/ dbLock = NoSlot /\ \E id \in NoteIds : DeleteNote(id, API_KEY)
    \/ \E s \in VoteSlots, id \in NoteIds : VoteSelect(s, id)
    \/ \E s \in VoteSlots : VoteUpdate(s)
    \/ \E s \in VoteSlots : VoteBusy(s)
    \/ \E s \in VoteSlots : VoteCommit(s)
    \/ \E s \in VoteSlots : VoteReadBack(s)

----------------------------------------------------------------------------
(* Chemistry API: credential store and authentication *)

\* src/security.py:15-19
DEFAULT_API_KEYS ==
    [k \in {"chemapi-admin-key-2024", "chemapi-user1-key-2024", "chemapi-user2-key-2024"} |->
        IF k = "chemapi-admin-key-2024" THEN [name |-> "admin", role |-> "admin"]
        ELSE IF k = "chemapi-user1-key-2024" THEN [name |-> "user1", role |-> "user"]
        ELSE [name |-> "user2", role |-> "user"]]

\* A text is a sequence of pieces; the separators "," and ":" and the blank
\* " " are pieces of their own.
\* API_KEYS=env-root:root:admin,env-ops:ops:Admin,env-guest:guest:guest
EnvSetting ==
    <<"env-root", ":", "root", ":", "admin", ",", "env-ops", ":", "ops", ":", "Admin", ",",
      "env-guest", ":", "guest", ":", "guest">>

\* str.split(sep): the runs between the separators, empty runs included
RECURSIVE SplitOn(_, _)
SplitOn(text, sep) ==
    IF \A i \in 1..Len(text) : text[i] # sep THEN <<text>>
    ELSE LET k == CHOOSE i \in 1..Len(text) :
                      text[i] = sep /\ \A j \in 1..(i - 1) : text[j] # sep
         IN  <<SubSeq(text, 1, k - 1)>> \o SplitOn(SubSeq(text, k + 1, Len(text)), sep)

\* str.strip(): without the blanks at both ends
RECURSIVE Strip(_)
Strip(text) ==
    IF text = << >> THEN text
    ELSE IF Head(text) = " " THEN Strip(Tail(text))
    ELSE IF text[Len(text)] = " " THEN Strip(SubSeq(text, 1, Len(text) - 1))
    ELSE text

\* the string a run of pieces spells
RECURSIVE Text(_)
Text(pieces) == IF pieces = << >> THEN "" ELSE Head(pieces) \o Text(Tail(pieces))

\* (mutant) an entry for a key that is already loaded is dropped
SetKey_KeepsFirst(keys, key, name, role) ==
    [k \in DOMAIN keys \cup {key} |->
        IF k \in DOMAIN keys THEN keys[k] ELSE [name |-> name, role |-> role]]

\* keys[key] = {"name": name, "role": role}
SetKey(keys, key, name, role) ==
    [k \in DOMAIN keys \cup {key} |->
        IF k = key THEN [name |-> name, role |-> role] ELSE keys[k]]

\* for key_entry in env_keys.split(','): the entries of three parts are taken
RECURSIVE ParseEntries(_, _)
ParseEntries(entries, keys) ==
    IF entries = << >> THEN keys
    ELSE LET parts == SplitOn(Strip(Head(entries)), ":")
         IN  ParseEntries(Tail(entries),
                          IF Len(parts) = 3
                          THEN SetKey(keys, Text(parts[1]), Text(parts[2]), Text(parts[3]))
                          ELSE keys)

\* load_api_keys
LoadApiKeys(setting) ==
    IF setting # << >>
    THEN LET keys == ParseEntries(SplitOn(setting, ","), << >>)
         IN  IF DOMAIN keys # {} THEN keys ELSE DEFAULT_API_KEYS
    ELSE DEFAULT_API_KEYS

\* the X-API-Key header of a chemistry request: missing, unknown, or a key of a store
ChemKeys == {None, "invalid-key", "chemapi-admin-key-2024", "chemapi-user1-key-2024",
             "env-root", "env-ops", "env-guest"}

Denied(status, text) == [status |-> status, detail |-> text, user |-> [name |-> None, role |-> None]]

\* (mutant) a missing key is answered like an unknown one
GetApiKey_Missing403(store, key) ==
    IF key = None \/ key \notin DOMAIN store
    THEN Denied(403, "Invalid API Key")
    ELSE [status |-> 200, detail |-> "ok", user |-> store[key]]

\* get_api_key
GetApiKey(store, key) ==
    IF key = None
    THEN Denied(401, "API Key required. Please provide X-API-Key header")
    ELSE IF key \notin DOMAIN store
    THEN Denied(403, "Invalid API Key")
    ELSE [status |-> 200, detail |-> "ok", user |-> store[key]]

\* (mutant) every resolved identity is let through
RequireAdmin_AnyRole(store, key) == GetApiKey(store, key)

\* require_admin
RequireAdmin(store, key) ==
    LET user == GetApiKey(store, key)
    IN  IF user.status # 200 THEN user
        ELSE IF user.user.role # "admin"
        THEN Denied(403, "Admin access required for this operation")
        ELSE user

\* require_user
RequireUser(store, key) == GetApiKey(store, key)

----------------------------------------------------------------------------
(* Chemistry API: the tables and the partial update *)

AtomFields == {"symbol", "name", "atomic_number", "atomic_mass"}

\* the atoms the database holds at start
SeedAtoms ==
    [i \in {1, 2} |->
        IF i = 1
        THEN [atom_id |-> 1, symbol |-> "H", name |-> "Hydrogen", atomic_number |-> 1,
              atomic_mass |-> 1]
        ELSE [atom_id |-> 2, symbol |-> "C", name |-> "Carbon", atomic_number |-> 6,
              atomic_mass |-> 12]]

SeedMolecules ==
    [i \in {1} |-> [molecule_id |-> 1, name |-> "Water", formula |-> "H2O"]]

SeedReactions ==
    [i \in {1} |-> [reaction_id |-> 1, description |-> "burning", reaction_type |-> "combustion"]]

\* ids a request may name: the stored ones and one that is not stored
AtomIds == {1, 2, 3}
MoleculeIds == {1, 2}
ReactionIds == {1, 2}

\* model.dict(exclude_unset=True) is a mapping from the fields present in the
\* request to their values: every restriction of a full payload
Payloads(full) ==
    UNION {{[f \in present |-> body[f]] : present \in SUBSET DOMAIN body} : body \in full}

\* db.query(Model).filter(Model.id == id).first()
First(db, id) == IF id \in DOMAIN db THEN db[id] ELSE NoRow

\* (mutant) the conflict query is skipped
Conflict_Never(db, id, field, upd) == FALSE

\* (mutant) the conflict query has no Atom.atom_id != atom_id
Conflict_IncludesSelf(db, id, field, upd) ==
    /\ field \in DOMAIN upd
    /\ \E o \in DOMAIN db : db[o][field] = upd[field]

\* db.query(Atom).filter(Atom.<field> == update_data[field], Atom.atom_id != atom_id).first()
Conflict(db, id, field, upd) ==
    /\ field \in DOMAIN upd
    /\ \E o \in DOMAIN db \ {id} : db[o][field] = upd[field]

\* setattr(db_obj, field, value) for every field of update_data
ApplyUpdates(row, upd) ==
    [f \in DOMAIN row |-> IF f \in DOMAIN upd THEN upd[f] ELSE row[f]]

\* the fields the session finds modified when it flushes: those whose new
\* value differs from the value loaded
Dirty(loaded, upd) == {f \in DOMAIN upd : upd[f] # loaded[f]}

\* the row the flush's UPDATE ... WHERE id = ? leaves in the table
Flushed(db, id, loaded, upd) ==
    [f \in DOMAIN db[id] |-> IF f \in Dirty(loaded, upd) THEN upd[f] ELSE db[id][f]]

\* the text columns; a request may send null for them (the model sends no
\* null for a numeric column)
TextColumns == {"symbol", "name", "formula", "description", "reaction_type"}

\* (mutant) the columns are declared nullable
NotNullOk_Nullable(row) == TRUE

\* every column is declared nullable=False
NotNullOk(row) == \A f \in DOMAIN row \cap TextColumns : row[f] # None

\* (mutant) the columns are declared without unique=True
UniqueOk_NoIndex(db, id, row, uniqueFields) == TRUE

\* Column(..., unique=True): no other row holds the value
UniqueOk(db, id, row, uniqueFields) ==
    \A f \in uniqueFields : \A o \in DOMAIN db \ {id} : db[o][f] # row[f]

\* db.commit(): the flush and the commit succeed, or raise IntegrityError
CommitOk(db, id, loaded, upd, uniqueFields) ==
    /\ id \in DOMAIN db
    /\ NotNullOk(Flushed(db, id, loaded, upd))
    /\ UniqueOk(db, id, Flushed(db, id, loaded, upd), uniqueFields)

Committed(db, id, loaded, upd) == [db EXCEPT ![id] = Flushed(db, id, loaded, upd)]

\* (mutant) the setattr loop writes the fields the table accepts and the
\* failed commit is not rolled back
RolledBack_PartialWrite(db, id, loaded, upd) ==
    [db EXCEPT ![id] =
        [f \in DOMAIN db[id] |->
            IF f \in DOMAIN upd /\ ~(f \in TextColumns /\ upd[f] = None)
            THEN upd[f] ELSE db[id][f]]]

\* db.rollback(): the table is as before the request
RolledBack(db, id, loaded, upd) == db

\* (mutant) an empty update_data is let through
NoFields_Never(upd) == FALSE

\* if not update_data
NoFields(upd) == DOMAIN upd = {}

ChemReply(op, id, key, upd, status, body) ==
    [op |-> op, id |-> id, key |-> key, upd |-> upd, status |-> status, body |-> body]

NoRequest == ChemReply("idle", 0, None, << >>, 0, Detail(""))

\* the body of update_atom, update_molecule and update_reaction after the
\* role check; unique names the columns with a conflict query (atoms only)
UpdateOutcome(op, db, key, id, upd, uniqueChecked, uniqueFields, what) ==
    LET db_obj == First(db, id)
    IN  IF db_obj = NoRow
        THEN [db |-> db, reply |-> ChemReply(op, id, key, upd, 404, Detail("not found"))]
        ELSE IF NoFields(upd)
        THEN [db |-> db, reply |-> ChemReply(op, id, key, upd, 400, Detail("No fields to update"))]
        ELSE IF \E f \in uniqueChecked : Conflict(db, id, f, upd)
        THEN [db |-> db, reply |-> ChemReply(op, id, key, upd, 409, Detail("already exists"))]
        ELSE IF ~CommitOk(db, id, db_obj, upd, uniqueFields)
        THEN [db |-> RolledBack(db, id, db_obj, upd),
              reply |-> ChemReply(op, id, key, upd, 500, Detail(what))]
        ELSE LET done == Committed(db, id, db_obj, upd)
             IN  [db |-> done, reply |-> ChemReply(op, id, key, upd, 200, done[id])]

\* (mutant) the handler looks the atom up before the dependency has refused
AuthFailure_AfterLookup(op, id, key, upd, auth) ==
    IF op \in {"get_atom", "update_atom"} /\ First(atoms, id) = NoRow
    THEN ChemReply(op, id, key, upd, 404, Detail("not found"))
    ELSE ChemReply(op, id, key, upd, auth.status, Detail(auth.detail))

\* the dependency raised: its HTTPException is the response, the handler does not run
AuthFailure(op, id, key, upd, auth) ==
    ChemReply(op, id, key, upd, auth.status, Detail(auth.detail))

\* PUT /api/v1/atoms/{atom_id}
UpdateAtom(key, id, upd) ==
    /\ cresp = NoRequest
    /\ LET auth == RequireAdmin(apiKeys, key)
           out == UpdateOutcome("update_atom", atoms, key, id, upd,
                                {"symbol", "atomic_number"}, {"symbol", "atomic_number"},
                                "Failed to update atom")
       IN  IF auth.status # 200
           THEN /\ cresp' = AuthFailure("update_atom", id, key, upd, auth)
                /\ atoms' = atoms
           ELSE /\ cresp' = out.reply
                /\ atoms' = out.db
    /\ UNCHANGED <<env_keys, apiKeys, molecules, reactions, areq, notesVars, limiterVars>>

\* PUT /api/v1/molecules/{molecule_id}
UpdateMolecule(key, id, upd) ==
    /\ cresp = NoRequest
    /\ LET auth == RequireAdmin(apiKeys, key)
           out == UpdateOutcome("update_molecule", molecules, key, id, upd, {}, {},
                                "Failed to update molecule")
       IN  IF auth.status # 200
           THEN /\ cresp' = AuthFailure("update_molecule", id, key, upd, auth)
                /\ molecules' = molecules
           ELSE /\ cresp' = out.reply
                /\ molecules' = out.db
    /\ UNCHANGED <<env_keys, apiKeys, atoms, reactions, areq, notesVars, limiterVars>>

\* PUT /api/v1/reactions/{reaction_id}
UpdateReaction(key, id, upd) ==
    /\ cresp = NoRequest
    /\ LET auth == RequireAdmin(apiKeys, key)
           out == UpdateOutcome("update_reaction", reactions, key, id, upd, {}, {},
                                "Failed to update reaction")
       IN  IF auth.status # 200
           THEN /\ cresp' = AuthFailure("update_reaction", id, key, upd, auth)
                /\ reactions' = reactions
           ELSE /\ cresp' = out.reply
                /\ reactions' = out.db
    /\ UNCHANGED <<env_keys, apiKeys, atoms, molecules, areq, notesVars, limiterVars>>

\* GET /api/v1/atoms/{atom_id}
GetAtom(key, id) ==
    /\ cresp = NoRequest
    /\ LET auth == RequireUser(apiKeys, key)
       IN  cresp' = IF auth.status # 200
                    THEN AuthFailure("get_atom", id, key, << >>, auth)
                    ELSE IF First(atoms, id) = NoRow
                    THEN ChemReply("get_atom", id, key, << >>, 404, Detail("not found"))
                    ELSE ChemReply("get_atom", id, key, << >>, 200, First(atoms, id))
    /\ UNCHANGED <<env_keys, apiKeys, atoms, molecules, reactions, areq, notesVars, limiterVars>>

\* GET /api/v1/auth-test: answers with the identity the key resolves to
AuthTest(key) ==
    /\ cresp = NoRequest
    /\ LET auth == RequireUser(apiKeys, key)
       IN  cresp' = IF auth.status # 200
                    THEN AuthFailure("auth_test", 0, key, << >>, auth)
                    ELSE ChemReply("auth_test", 0, key, << >>, 200,
                                   [authenticated |-> TRUE, user |-> auth.user.name,
                                    role |-> auth.user.role])
    /\ UNCHANGED <<env_keys, apiKeys, atoms, molecules, reactions, areq, notesVars, limiterVars>>

\* the response leaves the server; the next request is then taken up
SendResponse ==
    /\ cresp # NoRequest
    /\ cresp' = NoRequest
    /\ UNCHANGED <<env_keys, apiKeys, atoms, molecules, reactions, areq, notesVars, limiterVars>>

\* VALID_API_KEYS = load_api_keys() at import, then the tables as seeded
ChemInit(settings) ==
    /\ env_keys \in settings
    /\ apiKeys = LoadApiKeys(env_keys)
    /\ atoms = SeedAtoms
    /\ molecules = SeedMolecules
    /\ reactions = SeedReactions
    /\ cresp = NoRequest
    /\ areq = << >>

----------------------------------------------------------------------------
(* Chemistry API: update_atom requests interleaved at their queries.        *)
(* Every request has its own session (get_db); db.commit() flushes the      *)
(* UPDATE and commits it in one write transaction of the database.          *)

AtomSessions == {"s1", "s2"}

IdleSession == [pc |-> "idle", id |-> 0, upd |-> << >>, db_atom |-> NoRow]

AdminKey == CHOOSE k \in DOMAIN apiKeys : apiKeys[k].role = "admin"

\* db.query(Atom).filter(Atom.atom_id == atom_id).first(), then exclude_unset
AtomFind(s, id, upd) ==
    /\ areq[s].pc = "idle"
    /\ IF First(atoms, id) = NoRow
       THEN /\ cresp' = ChemReply("update_atom", id, AdminKey, upd, 404, Detail("not found"))
            /\ areq' = areq
       ELSE IF NoFields(upd)
       THEN /\ cresp' = ChemReply("update_atom", id, AdminKey, upd, 400,
                                  Detail("No fields to update"))
            /\ areq' = areq
       ELSE /\ areq' = [areq EXCEPT ![s] = [pc |-> "found", id |-> id, upd |-> upd,
                                            db_atom |-> First(atoms, id)]]
            /\ cresp' = cresp
    /\ UNCHANGED <<env_keys, apiKeys, atoms, molecules, reactions, notesVars, limiterVars>>

\* the conflict query on symbol
AtomCheckSymbol(s) ==
    /\ areq[s].pc = "found"
    /\ IF Conflict(atoms, areq[s].id, "symbol", areq[s].upd)
       THEN /\ cresp' = ChemReply("update_atom", areq[s].id, AdminKey, areq[s].upd, 409,
                                  Detail("already exists"))
            /\ areq' = [areq EXCEPT ![s] = IdleSession]
       ELSE /\ areq' = [areq EXCEPT ![s].pc = "symbolChecked"]
            /\ cresp' = cresp
    /\ UNCHANGED <<env_keys, apiKeys, atoms, molecules, reactions, notesVars, limiterVars>>

\* the conflict query on atomic_number
AtomCheckNumber(s) ==
    /\ areq[s].pc = "symbolChecked"
    /\ IF Conflict(atoms, areq[s].id, "atomic_number", areq[s].upd)
       THEN /\ cresp' = ChemReply("update_atom", areq[s].id, AdminKey, areq[s].upd, 409,
                                  Detail("already exists"))
            /\ areq' = [areq EXCEPT ![s] = IdleSession]
       ELSE /\ areq' = [areq EXCEPT ![s].pc = "checked"]
            /\ cresp' = cresp
    /\ UNCHANGED <<env_keys, apiKeys, atoms, molecules, reactions, notesVars, limiterVars>>

\* setattr, db.commit(); on an exception db.rollback() and 500
AtomCommit(s) ==
    /\ areq[s].pc = "checked"
    /\ IF CommitOk(atoms, areq[s].id, areq[s].db_atom, areq[s].upd, {"symbol", "atomic_number"})
       THEN /\ atoms' = Committed(atoms, areq[s].id, areq[s].db_atom, areq[s].upd)
            /\ areq' = [areq EXCEPT ![s].pc = "committed"]
            /\ cresp' = cresp
       ELSE /\ atoms' = RolledBack(atoms, areq[s].id, areq[s].db_atom, areq[s].upd)
            /\ areq' = [areq EXCEPT ![s] = IdleSession]
            /\ cresp' = ChemReply("update_atom", areq[s].id, AdminKey, areq[s].upd, 500,
                                  Detail("Failed to update atom"))
    /\ UNCHANGED <<env_keys, apiKeys, molecules, reactions, notesVars, limiterVars>>

\* db.refresh(db_atom) and the response
AtomRefresh(s) ==
    /\ areq[s].pc = "committed"
    /\ cresp' = ChemReply("update_atom", areq[s].id, AdminKey, areq[s].upd, 200,
                          First(atoms, areq[s].id))
    /\ areq' = [areq EXCEPT ![s] = IdleSession]
    /\ UNCHANGED <<env_keys, apiKeys, atoms, molecules, reactions, notesVars, limiterVars>>

AtomsConcInit ==
    /\ env_keys = << >>
    /\ apiKeys = LoadApiKeys(env_keys)
    /\ atoms = SeedAtoms
    /\ molecules = SeedMolecules
    /\ reactions = SeedReactions
    /\ cresp = NoRequest
    /\ areq = [s \in AtomSessions |-> IdleSession]

----------------------------------------------------------------------------
(* SimpleRateLimiter *)

\* src/security.py:100  minute_ago = now - 60
WindowSeconds == 60

\* the keys of the limiter: user["name"]
LimiterKeys == {"admin", "user1"}

\* how far the clock moves between two calls
ClockSteps == {0, 1, 59, 60}

\* self.requests is a defaultdict(list)
Get(reqs, key) == IF key \in DOMAIN reqs THEN reqs[key] ELSE << >>

Put(reqs, key, list) == [k \in DOMAIN reqs \cup {key} |-> IF k = key THEN list ELSE reqs[k]]

\* (mutant) the old requests are never cleaned
Prune_KeepsAll(list, t) == list

\* [req_time for req_time in self.requests[key] if req_time > minute_ago]
Prune(list, t) == SelectSeq(list, LAMBDA req_time : req_time > t - WindowSeconds)

\* (mutant) the comparison lets one more request through
AtLimit_OffByOne(list, limit) == Len(list) > limit

\* len(self.requests[key]) >= self.requests_per_minute
AtLimit(list, limit) == Len(list) >= limit

\* SimpleRateLimiter.check_rate_limit(key), called when the clock shows t
CheckRateLimit(key, t) ==
    /\ calls < MaxCalls
    /\ threads = << >>
    /\ now' = t
    /\ calls' = calls + 1
    /\ LET cleaned == Prune(Get(requests, key), t)
       IN  IF AtLimit(cleaned, requests_per_minute)
           THEN /\ requests' = Put(requests, key, cleaned)
                /\ ret' = [key |-> key, at |-> t, result |-> FALSE]
                /\ admitted' = admitted
           ELSE /\ requests' = Put(requests, key, Append(cleaned, t))
                /\ ret' = [key |-> key, at |-> t, result |-> TRUE]
                /\ admitted' = [admitted EXCEPT ![key] = Append(@, t)]
    /\ UNCHANGED <<requests_per_minute, threads, notesVars, chemVars>>

LimiterInit(limits) ==
    /\ requests = << >>
    /\ requests_per_minute \in limits
    /\ now = 0
    /\ calls = 0
    /\ ret = [key |-> None, at |-> 0, result |-> FALSE]
    /\ admitted = [k \in LimiterKeys |-> << >>]
    /\ threads = << >>

----------------------------------------------------------------------------
(* SimpleRateLimiter: calls of several threads interleaved at the steps of  *)
(* check_rate_limit; the class holds no lock.                               *)

LimiterThreads == {"t1", "t2"}

\* how far the clock moves between the starts of two interleaved calls
RacingClockSteps == {0, 60}

IdleThread == [pc |-> "idle", key |-> None, at |-> 0, cleaned |-> << >>]

\* now = time.time(); minute_ago = now - 60
RLStart(th, key, t) ==
    /\ threads[th].pc = "idle"
    /\ calls < MaxRacingCalls
    /\ now' = t
    /\ calls' = calls + 1
    /\ threads' = [threads EXCEPT ![th] = [pc |-> "started", key |-> key, at |-> t,
                                            cleaned |-> << >>]]
    /\ UNCHANGED <<requests, requests_per_minute, ret, admitted, notesVars, chemVars>>

\* the list comprehension reads self.requests[key] and builds the filtered list
RLFilter(th) ==
    /\ threads[th].pc = "started"
    /\ threads' = [threads EXCEPT ![th].pc = "filtered",
                                  ![th].cleaned = Prune(Get(requests, threads[th].key),
                                                        threads[th].at)]
    /\ requests' = Put(requests, threads[th].key, Get(requests, threads[th].key))
    /\ UNCHANGED <<requests_per_minute, now, calls, ret, admitted, notesVars, chemVars>>

\* self.requests[key] = <the filtered list>
RLStore(th) ==
    /\ threads[th].pc = "filtered"
    /\ requests' = Put(requests, threads[th].key, threads[th].cleaned)
    /\ threads' = [threads EXCEPT ![th].pc = "stored", ![th].cleaned = << >>]
    /\ UNCHANGED <<requests_per_minute, now, calls, ret, admitted, notesVars, chemVars>>

\* if len(self.requests[key]) >= self.requests_per_minute: return False
RLCheck(th) ==
    /\ threads[th].pc = "stored"
    /\ IF AtLimit(Get(requests, threads[th].key), requests_per_minute)
       THEN /\ threads' = [threads EXCEPT ![th] = IdleThread]
            /\ ret' = [key |-> threads[th].key, at |-> threads[th].at, result |-> FALSE]
       ELSE /\ threads' = [threads EXCEPT ![th].pc = "passed"]
            /\ ret' = ret
    /\ UNCHANGED <<requests, requests_per_minute, now, calls, admitted, notesVars, chemVars>>

\* self.requests[key].append(now); return True
RLAppend(th) ==
    /\ threads[th].pc = "passed"
    /\ requests' = Put(requests, threads[th].key,
                       Append(Get(requests, threads[th].key), threads[th].at))
    /\ admitted' = [admitted EXCEPT ![threads[th].key] = Append(@, threads[th].at)]
    /\ ret' = [key |-> threads[th].key, at |-> threads[th].at, result |-> TRUE]
    /\ threads' = [threads EXCEPT ![th] = IdleThread]
    /\ UNCHANGED <<requests_per_minute, now, calls, notesVars, chemVars>>

LimiterConcInit ==
    /\ requests = << >>
    /\ requests_per_minute \in 1..MaxLimit
    /\ now = 0
    /\ calls = 0
    /\ ret = [key |-> None, at |-> 0, result |-> FALSE]
    /\ admitted = [k \in LimiterKeys |-> << >>]
    /\ threads = [th \in LimiterThreads |-> IdleThread]

----------------------------------------------------------------------------
(* Inputs of the chemistry requests *)

\* AtomUpdate payloads of the authorisation runs
ThinAtomUpdates == Payloads([name : {"Nx"}])

\* MoleculeUpdate and ReactionUpdate payloads
MoleculeUpdates == Payloads([name : {"Mx"}])
ReactionUpdates == Payloads([description : {"Dx"}])

\* AtomUpdate payloads: every field is optional, a present field may be null
AtomUpdates ==
    Payloads([symbol : {"C", "X", None}, name : {"Nx"}, atomic_number : {6, 9},
              atomic_mass : {5}])

\* MoleculeUpdate payloads with a null field
NullableMoleculeUpdates == Payloads([name : {"Mx"}, formula : {None}])

\* AtomUpdate and ReactionUpdate payloads with null fields
NullableAtomUpdates == Payloads([symbol : {"X", None}, name : {None}])
NullableReactionUpdates == Payloads([description : {"Dx"}, reaction_type : {None}])

\* AtomUpdate payloads of the interleaved requests
RacingAtomUpdates == Payloads([symbol : {"H", "X"}, atomic_number : {9}])

ChemAuthNext ==
    \/ \E key \in ChemKeys, id \in AtomIds, upd \in ThinAtomUpdates : UpdateAtom(key, id, upd)
    \/ \E key \in ChemKeys, id \in MoleculeIds, upd \in MoleculeUpdates :
          UpdateMolecule(key, id, upd)
    \/ \E key \in ChemKeys, id \in ReactionIds, upd \in ReactionUpdates :
          UpdateReaction(key, id, upd)
    \/ \E key \in ChemKeys, id \in AtomIds : GetAtom(key, id)
    \/ \E key \in ChemKeys : AuthTest(key)
    \/ SendResponse

AtomsNext ==
    \/ \E key \in {"chemapi-admin-key-2024", "chemapi-user1-key-2024"},
          id \in AtomIds, upd \in AtomUpdates : UpdateAtom(key, id, upd)
    \/ \E id \in MoleculeIds, upd \in NullableMoleculeUpdates :
          UpdateMolecule("chemapi-admin-key-2024", id, upd)
    \/ \E id \in AtomIds : GetAtom("chemapi-user1-key-2024", id)
    \/ SendResponse

AtomsConcNext ==
    \/ \E s \in AtomSessions, id \in AtomIds, upd \in RacingAtomUpdates : AtomFind(s, id, upd)
    \/ \E s \in AtomSessions : AtomCheckSymbol(s)
    \/ \E s \in AtomSessions : AtomCheckNumber(s)
    \/ \E s \in AtomSessions : AtomCommit(s)
    \/ \E s \in AtomSessions : AtomRefresh(s)

NotesUpdateNext ==
    \/ \E note \in PlainNoteCreates : CreateNote(note)
    \/ \E id \in NoteIds, upd \in RichNoteUpdates : UpdateNote(id, upd)
    \/ \E id \in NoteIds : PinNote(id)
    \/ \E id \in NoteIds : VoteNote(id)

\* partial updates of both services, the requests taken one at a time
NullUpdateNext ==
    \/ cresp = NoRequest /\ \E note \in NoteCreates : CreateNote(note)
    \/ cresp = NoRequest /\ \E id \in NoteIds, upd \in NoteUpdates : UpdateNote(id, upd)
    \/ \E id \in AtomIds, upd \in NullableAtomUpdates :
          UpdateAtom("chemapi-admin-key-2024", id, upd)
    \/ \E id \in MoleculeIds, upd \in NullableMoleculeUpdates :
          UpdateMolecule("chemapi-admin-key-2024", id, upd)
    \/ \E id \in ReactionIds, upd \in NullableReactionUpdates :
          UpdateReaction("chemapi-admin-key-2024", id, upd)
    \/ SendResponse

LimiterNext ==
    \E key \in LimiterKeys, step \in ClockSteps : CheckRateLimit(key, now + step)

LimiterConcNext ==
    \/ \E th \in LimiterThreads, key \in LimiterKeys, step \in RacingClockSteps :
          RLStart(th, key, now + step)
    \/ \E th \in LimiterThreads : RLFilter(th)
    \/ \E th \in LimiterThreads : RLStore(th)
    \/ \E th \in LimiterThreads : RLCheck(th)
    \/ \E th \in LimiterThreads : RLAppend(th)

----------------------------------------------------------------------------
(* Specifications: each runs the requests of one service *)

ChemIdle == ChemInit({<< >>})

LimiterIdle == LimiterInit({1})

InitNotes == NotesInit /\ ChemIdle /\ LimiterIdle

SpecNotes == InitNotes /\ [][NotesNext]_vars

InitNotesConc == NotesConcInit /\ ChemIdle /\ LimiterIdle

SpecNotesConc == InitNotesConc /\ [][NotesConcNext]_vars

InitNotesUpdate == NotesInit /\ ChemIdle /\ LimiterIdle

SpecNotesUpdate == InitNotesUpdate /\ [][NotesUpdateNext]_vars

InitNullUpdate == NotesInit /\ ChemIdle /\ LimiterIdle

SpecNullUpdate == InitNullUpdate /\ [][NullUpdateNext]_vars

InitChemAuth == NotesInit /\ ChemInit({<< >>, EnvSetting}) /\ LimiterIdle

SpecChemAuth == InitChemAuth /\ [][ChemAuthNext]_vars

InitAtoms == NotesInit /\ ChemIdle /\ LimiterIdle

SpecAtoms == InitAtoms /\ [][AtomsNext]_vars

InitAtomsConc == NotesInit /\ AtomsConcInit /\ LimiterIdle

SpecAtomsConc == InitAtomsConc /\ [][AtomsConcNext]_vars

InitLimiter == NotesInit /\ ChemIdle /\ LimiterInit(1..MaxLimit)

SpecLimiter == InitLimiter /\ [][LimiterNext]_vars

InitLimiterConc == NotesInit /\ ChemIdle /\ LimiterConcInit

SpecLimiterConc == InitLimiterConc /\ [][LimiterConcNext]_vars

----------------------------------------------------------------------------
(* Claims about the notes service, one handler per action (SpecNotes) *)

C3_DeleteOnlyWithAdminKey ==
    [][ /\ \A i \in DOMAIN notes :
              i \notin DOMAIN notes' =>
                  /\ resp'.op = "delete" /\ resp'.id = i
                  /\ resp'.key = API_KEY /\ resp'.status = 200
        /\ (resp'.op = "delete" /\ resp'.key # API_KEY) =>
              /\ resp'.status = 403
              /\ notes' = notes
              /\ SqlSelect(notes', resp'.id) = SqlSelect(notes, resp'.id)
      ]_vars

\* C3 witness: a DELETE with a wrong key on a stored note was answered 403
C3_Witness ==
    /\ resp.op = "delete" /\ resp.key = "wrong-key" /\ resp.status = 403
    /\ resp.id \in DOMAIN notes

----------------------------------------------------------------------------
(* Claims about interleaved vote requests (SpecNotesConc) *)

----------------------------------------------------------------------------
(* Claims about the chemistry API's authorisation (SpecChemAuth) *)

UpdateOps == {"update_atom", "update_molecule", "update_reaction"}

UserGatedOps == {"get_atom", "auth_test"}

Resolves(key) == key # None /\ key \in DOMAIN apiKeys

\* C4: a stored atom, molecule or reaction changes only in a PUT answered 200
\* whose key resolves to an identity of role exactly "admin"; a PUT whose key
\* resolves to any other role is answered 403 "Admin access required for this
\* operation" and leaves the tables as they were; a user-gated GET whose key
\* resolves to any identity is never answered 401 or 403.
C4_OnlyAdminRoleUpdates ==
    [][ /\ (atoms' # atoms \/ molecules' # molecules \/ reactions' # reactions) =>
              /\ cresp'.op \in UpdateOps /\ cresp'.status = 200
              /\ Resolves(cresp'.key) /\ apiKeys[cresp'.key].role = "admin"
        /\ (cresp'.op \in UpdateOps /\ Resolves(cresp'.key)
                /\ apiKeys[cresp'.key].role # "admin") =>
              /\ cresp'.status = 403
              /\ cresp'.body = Detail("Admin access required for this operation")
              /\ atoms' = atoms /\ molecules' = molecules /\ reactions' = reactions
        /\ (cresp'.op \in UserGatedOps /\ Resolves(cresp'.key)) =>
              cresp'.status \notin {401, 403}
      ]_vars

\* C4 witness: a PUT on a stored atom with a key whose role is "Admin", not
\* "admin", was answered 403
C4_Witness ==
    /\ cresp.op = "update_atom" /\ cresp.key = "env-ops" /\ cresp.status = 403
    /\ Resolves(cresp.key) /\ apiKeys[cresp.key].role = "Admin"
    /\ cresp.id \in DOMAIN atoms /\ DOMAIN cresp.upd # {}

\* C5: a chemistry request without X-API-Key is answered 401, one whose key is
\* not in the credential store is answered 403 "Invalid API Key", and
\* auth-test with a key of the store answers 200 with exactly the name and the
\* role the store maps the key to, whatever the tables hold; the
\* authentication changes neither the store nor, when it fails or in
\* auth-test, any table.
C5_Authenticate ==
    [][ cresp' # NoRequest =>
            /\ cresp'.key = None =>
                  /\ cresp'.status = 401
                  /\ cresp'.body = Detail("API Key required. Please provide X-API-Key header")
            /\ (cresp'.key # None /\ cresp'.key \notin DOMAIN apiKeys) =>
                  /\ cresp'.status = 403
                  /\ cresp'.body = Detail("Invalid API Key")
            /\ (cresp'.op = "auth_test" /\ Resolves(cresp'.key)) =>
                  /\ cresp'.status = 200
                  /\ cresp'.body = [authenticated |-> TRUE,
                                    user |-> apiKeys[cresp'.key].name,
                                    role |-> apiKeys[cresp'.key].role]
            /\ apiKeys' = apiKeys
            /\ (cresp'.op = "auth_test" \/ ~Resolves(cresp'.key)) =>
                  atoms' = atoms /\ molecules' = molecules /\ reactions' = reactions
      ]_vars

\* C5 witness: auth-test resolved a key of the environment's store to its
\* identity after a stored record had been changed
C5_Witness ==
    /\ cresp.op = "auth_test" /\ cresp.key = "env-guest" /\ cresp.status = 200
    /\ cresp.body.user = "guest" /\ cresp.body.role = "guest"
    /\ atoms # SeedAtoms

----------------------------------------------------------------------------
(* Claims about update_atom, one request at a time (SpecAtoms) *)

HeldByAnother(db, id, upd) ==
    \E f \in {"symbol", "atomic_number"} \cap DOMAIN upd :
        \E o \in DOMAIN db \ {id} : db[o][f] = upd[f]

\* C6: an update_atom of a stored atom by an admin whose payload sets symbol
\* or atomic_number to the value held by another atom is answered 409 and
\* leaves the atoms table as it was, whatever other fields the payload holds.
C6_ConflictLeavesAtomsUnchanged ==
    [][ (/\ cresp'.op = "update_atom"
         /\ Resolves(cresp'.key) /\ apiKeys[cresp'.key].role = "admin"
         /\ cresp'.id \in DOMAIN atoms
         /\ HeldByAnother(atoms, cresp'.id, cresp'.upd)) =>
            /\ cresp'.status = 409
            /\ atoms' = atoms
      ]_vars

\* C6 witness: the payload answered 409 for its symbol also held a new name
\* and a free atomic number, and neither was written
C6_Witness ==
    /\ cresp.op = "update_atom" /\ cresp.status = 409
    /\ DOMAIN cresp.upd = {"symbol", "name", "atomic_number"}
    /\ cresp.upd.atomic_number = 9
    /\ \E o \in DOMAIN atoms \ {cresp.id} : atoms[o].symbol = cresp.upd.symbol
    /\ atoms[cresp.id].name # cresp.upd.name
    /\ atoms[cresp.id].atomic_number # 9

----------------------------------------------------------------------------
(* Claims about interleaved update_atom requests (SpecAtomsConc) *)

\* C7: in every state reached by update_atom requests, run one after another
\* or interleaved at their queries, no two atoms hold the same symbol and no
\* two atoms hold the same atomic number.
C7_UniqueAtoms ==
    \A a \in DOMAIN atoms : \A b \in DOMAIN atoms \ {a} :
        /\ atoms[a].symbol # atoms[b].symbol
        /\ atoms[a].atomic_number # atoms[b].atomic_number

\* C7 witness: two requests set the symbol "X" on two different atoms, both
\* passed the conflict queries, one was committed and the other was answered
\* 500 by the failed commit
C7_Witness ==
    /\ cresp.op = "update_atom" /\ cresp.status = 500
    /\ "symbol" \in DOMAIN cresp.upd /\ cresp.upd.symbol = "X"
    /\ atoms[cresp.id].symbol # "X"
    /\ \E o \in DOMAIN atoms \ {cresp.id} : atoms[o].symbol = "X"

----------------------------------------------------------------------------
(* Claims about SimpleRateLimiter, one call at a time (SpecLimiter) *)

\* the calls among times that fall into the 60 seconds ending at t
InWindow(times, t) ==
    Cardinality({i \in 1..Len(times) : times[i] > t - WindowSeconds /\ times[i] <= t})

NoWindowOverLimit ==
    \A key \in DOMAIN admitted :
        \A j \in 1..Len(admitted[key]) :
            InWindow(admitted[key], admitted[key][j]) <= requests_per_minute

\* C8: with the clock not running backwards, a call for a key leaves in the
\* key's list the timestamps newer than now - 60; it returns False and adds
\* nothing if requests_per_minute or more of them remain, else appends now
\* and returns True. After every call the list of a key holds at most
\* requests_per_minute entries and no 60 seconds ending at an admitted call
\* hold more than requests_per_minute admitted calls of the key.
C8_SlidingWindow ==
    [][ calls' = calls + 1 =>
            LET key == ret'.key
                kept == SelectSeq(Get(requests, key), LAMBDA t : t > now' - 60)
            IN  /\ now' >= now /\ ret'.at = now'
                /\ IF Len(kept) >= requests_per_minute
                   THEN ret'.result = FALSE /\ requests'[key] = kept
                   ELSE ret'.result = TRUE /\ requests'[key] = Append(kept, now')
                /\ \A k \in DOMAIN requests' \ {key} : requests'[k] = Get(requests, k)
                /\ \A k \in DOMAIN requests' : Len(requests'[k]) <= requests_per_minute
                /\ NoWindowOverLimit'
      ]_vars

\* C8 witness: a call was refused although an older timestamp of the key had
\* just been dropped, while the other key was still admitted before
C8_Witness ==
    /\ ret.result = FALSE /\ calls = MaxCalls
    /\ requests_per_minute = 2
    /\ Len(admitted[ret.key]) = 3
    /\ Len(requests[ret.key]) = 2
    /\ \E k \in DOMAIN requests \ {ret.key} : Len(requests[k]) = 1

----------------------------------------------------------------------------
(* Claims about interleaved check_rate_limit calls (SpecLimiterConc) *)

Count(times, t) == Cardinality({i \in 1..Len(times) : times[i] = t})

\* C9 (refuted): when no call is in flight, every admitted timestamp that is
\* newer than now - 60 is still in the list of its key, and no 60 seconds
\* ending at an admitted call hold more than requests_per_minute admitted
\* calls of the key.
C9_RaceFree ==
    (\A th \in LimiterThreads : threads[th].pc = "idle") =>
        /\ \A key \in DOMAIN admitted :
              \A j \in 1..Len(admitted[key]) :
                  admitted[key][j] > now - WindowSeconds =>
                      Count(Get(requests, key), admitted[key][j])
                          >= Count(admitted[key], admitted[key][j])
        /\ NoWindowOverLimit

----------------------------------------------------------------------------
(* Claims about the life of a note (SpecNotes) *)

\* C11: an id whose DELETE was answered 200 is never stored again, a GET of it
\* is answered 404 after whatever requests followed, and a create assigns an
\* id greater than every id stored or deleted before, also when the note with
\* the highest id was deleted.
C11_NoResurrection ==
    [][ /\ deleted \subseteq deleted'
        /\ deleted' \cap DOMAIN notes' = {}
        /\ (resp'.op = "read" /\ resp'.id \in deleted') => resp'.status = 404
        /\ resp'.op = "create" => \A i \in DOMAIN notes \cup deleted : resp'.id > i
      ]_vars

\* C11 witness: the only note, which held the highest id, was deleted and the
\* create that followed stored its note under the next id
C11_Witness ==
    /\ resp.op = "create" /\ resp.status = 201 /\ resp.id = 2
    /\ deleted = {1} /\ DOMAIN notes = {2}

\* C12: a note that is pinned stays pinned in every step that leaves it
\* stored, whatever create, update, vote, pin, get or list request the step is.
C12_NoUnpinning ==
    [][ \A i \in DOMAIN notes \cap DOMAIN notes' :
            notes[i].pinned => notes'[i].pinned
      ]_vars

\* C12 witness: a pinned note that holds a vote was updated and is still pinned
C12_Witness ==
    /\ resp.op = "update" /\ resp.status = 200 /\ resp.upd.topic = "U"
    /\ resp.body.pinned /\ resp.body.votes = 1

\* C13 (refuted): every stored note holds as many votes as vote requests on it
\* were answered 200: votes start at 0, only a successful vote adds to them,
\* and no failed request changes them.
C13_VotesOnlyBySuccessfulVotes ==
    \A i \in DOMAIN notes :
        /\ notes[i].votes \in Nat
        /\ notes[i].votes = voteOk[i]

\* C14: a DELETE with the admin key on an id that is not stored, because it
\* was never created or was deleted before, is answered 404 "Note not found"
\* and leaves the table as it was.
C14_DeleteAbsentIs404 ==
    [][ (resp'.op = "delete" /\ resp'.key = API_KEY /\ resp'.id \notin DOMAIN notes) =>
            /\ resp'.status = 404
            /\ resp'.body = Detail("Note not found")
            /\ notes' = notes
      ]_vars

\* C14 witness: the second DELETE of an id was answered 404 beside a stored note
C14_Witness ==
    /\ resp.op = "delete" /\ resp.key = API_KEY /\ resp.status = 404
    /\ resp.id \in deleted
    /\ DOMAIN notes # {}

\* C15: a get, update, vote or pin on an id that is not stored is answered
\* 404, assigns no id and leaves the table as it was.
C15_AbsentIs404 ==
    [][ (resp'.op \in {"read", "update", "vote", "pin"} /\ resp'.id \notin DOMAIN notes) =>
            /\ resp'.status = 404
            /\ notes' = notes
            /\ nextId' = nextId
      ]_vars

\* C15 witness: a vote on a deleted id was answered 404 beside a note that
\* holds a vote
C15_Witness ==
    /\ resp.op = "vote" /\ resp.status = 404 /\ resp.id \in deleted
    /\ \E i \in DOMAIN notes : notes[i].votes = 1

----------------------------------------------------------------------------
(* Claims about the chemistry API's partial update (SpecChemAuth, SpecAtoms) *)

\* the table an update request is about
TableOf(op) ==
    IF op = "update_atom" THEN atoms
    ELSE IF op = "update_molecule" THEN molecules
    ELSE reactions

ByAdmin(reply) == Resolves(reply.key) /\ apiKeys[reply.key].role = "admin"

\* C17: a PUT by an admin on a stored atom, molecule or reaction whose payload
\* holds no field is answered 400 "No fields to update" and leaves the tables
\* as they were.
C17_EmptyUpdateIs400 ==
    [][ (/\ cresp'.op \in UpdateOps /\ ByAdmin(cresp')
         /\ cresp'.id \in DOMAIN TableOf(cresp'.op)
         /\ DOMAIN cresp'.upd = {}) =>
            /\ cresp'.status = 400
            /\ cresp'.body = Detail("No fields to update")
            /\ atoms' = atoms /\ molecules' = molecules /\ reactions' = reactions
      ]_vars

\* C17 witness: an admin's PUT without fields on a stored reaction was answered
\* 400 after a molecule had been updated
C17_Witness ==
    /\ cresp.op = "update_reaction" /\ cresp.status = 400 /\ ByAdmin(cresp)
    /\ cresp.id \in DOMAIN reactions /\ DOMAIN cresp.upd = {}
    /\ molecules # SeedMolecules

NullSent(upd) == \E f \in DOMAIN upd \cap TextColumns : upd[f] = None

\* C19: a PUT answered 500 leaves the atoms, molecules and reactions as they
\* were, whatever fields its payload holds; and a PUT by an admin on a stored
\* record whose payload passes the conflict queries but cannot be persisted
\* (a null for a NOT NULL column) is answered 500.
C19_AllOrNothing ==
    [][ cresp'.op \in UpdateOps =>
            /\ cresp'.status = 500 =>
                  atoms' = atoms /\ molecules' = molecules /\ reactions' = reactions
            /\ (/\ ByAdmin(cresp')
                /\ cresp'.id \in DOMAIN TableOf(cresp'.op)
                /\ NullSent(cresp'.upd)
                /\ ~(cresp'.op = "update_atom"
                       /\ HeldByAnother(atoms, cresp'.id, cresp'.upd))) =>
                  cresp'.status = 500
      ]_vars

\* C19 witness: the payload whose null symbol failed at the commit also held a
\* new name and a new atomic number, and the atom holds neither
C19_Witness ==
    /\ cresp.op = "update_atom" /\ cresp.status = 500
    /\ DOMAIN cresp.upd = {"symbol", "name", "atomic_number"}
    /\ cresp.upd.symbol = None
    /\ atoms[cresp.id].name # cresp.upd.name
    /\ atoms[cresp.id].atomic_number # cresp.upd.atomic_number

----------------------------------------------------------------------------
(* Claims about the fields a note's update writes (SpecNotesUpdate) *)

\* C18: an update answered 200 is an update of a stored note; it leaves in
\* topic, content and author the payload's value where the field is present
\* and the stored value where it is absent, leaves the note's id, created_at,
\* votes and pinned and every other note as they were, and returns the record
\* the table holds after it.
C18_UpdateWritesPresentFields ==
    [][ (resp'.op = "update" /\ resp'.status = 200) =>
            /\ resp'.id \in DOMAIN notes
            /\ DOMAIN notes' = DOMAIN notes
            /\ \A f \in {"topic", "content", "author"} :
                  notes'[resp'.id][f] = IF resp'.upd[f] # None THEN resp'.upd[f]
                                        ELSE notes[resp'.id][f]
            /\ \A f \in {"id", "created_at", "votes", "pinned"} :
                  notes'[resp'.id][f] = notes[resp'.id][f]
            /\ \A j \in DOMAIN notes \ {resp'.id} : notes'[j] = notes[j]
            /\ resp'.body = notes'[resp'.id]
      ]_vars

\* C18 witness: an update with content and author but no topic on a pinned
\* note that holds a vote, beside a note it left alone
C18_Witness ==
    /\ resp.op = "update" /\ resp.status = 200
    /\ resp.upd = [topic |-> None, content |-> "V", author |-> "A"]
    /\ resp.body.topic = "T" /\ resp.body.content = "V" /\ resp.body.author = "A"
    /\ resp.body.votes = 1 /\ resp.body.pinned
    /\ \E j \in DOMAIN notes \ {resp.id} : notes[j].content = "C"

----------------------------------------------------------------------------
(* Claims about null in a partial update (SpecNullUpdate) *)

\* the fields sent as null hold in after what they held in before
NullKept(before, after, id, upd) ==
    id \in DOMAIN before =>
        \A f \in DOMAIN upd \cap TextColumns :
            upd[f] = None => after[id][f] = before[id][f] /\ after[id][f] # None

\* C20: a field sent as null by an update does not clear the stored field: a
\* note keeps in topic, content and author what it held, and an atom, a
\* molecule and a reaction keep their value, which is not null.
C20_NullDoesNotClear ==
    [][ /\ (resp'.op = "update" /\ resp'.id \in DOMAIN notes) =>
              \A f \in {"topic", "content", "author"} :
                  resp'.upd[f] = None => notes'[resp'.id][f] = notes[resp'.id][f]
        /\ cresp'.op = "update_atom" => NullKept(atoms, atoms', cresp'.id, cresp'.upd)
        /\ cresp'.op = "update_molecule" =>
              NullKept(molecules, molecules', cresp'.id, cresp'.upd)
        /\ cresp'.op = "update_reaction" =>
              NullKept(reactions, reactions', cresp'.id, cresp'.upd)
      ]_vars

\* C20 witness: a note's update with a new topic and null content and author
\* kept the author, and a molecule's update with a new name and a null
\* formula kept the formula
C20_Witness ==
    /\ resp.op = "update" /\ resp.status = 200
    /\ resp.upd = [topic |-> "U", content |-> None, author |-> None]
    /\ resp.body.author = DefaultAuthor /\ resp.body.content = "C"
    /\ cresp.op = "update_molecule" /\ cresp.id \in DOMAIN molecules
    /\ cresp.upd = [name |-> "Mx", formula |-> None]
    /\ molecules[cresp.id].formula = "H2O"

----------------------------------------------------------------------------
(* Notes service: the body of POST /notes and the filtered listing.        *)
(* Contents and search strings are sequences of characters, so that LIKE   *)
(* can look at them one character at a time.                               *)

\* JSON bodies of POST /notes that pass NoteCreate: topic and content are
\* required, the author is absent, a string or null
CreateBodies ==
    {body \in Payloads([topic : {"T"},
                        content : {<<"a", "b">>, <<"a", "_">>, <<"%">>},
                        author : {"Bob", None}]) :
        {"topic", "content"} \subseteq DOMAIN body}

\* NoteCreate(**body): an absent author takes the default of the field
NoteCreateModel(body) ==
    [topic |-> body.topic, content |-> body.content,
     author |-> IF "author" \in DOMAIN body THEN body.author ELSE DefaultAuthor]

\* the query string of GET /notes: each parameter is absent or given; a
\* given parameter may be empty
ListQueries ==
    Payloads([topic : {"T", "U"}, author : {"Bob"},
              search : {<< >>, <<"a", "_">>, <<"%">>, <<"B">>, <<"b", "a">>}])

\* LIKE compares ASCII letters without regard to case
Fold(c) == IF c = "A" THEN "a" ELSE IF c = "B" THEN "b" ELSE c

\* text LIKE pattern, without ESCAPE: % stands for any run of characters,
\* _ for any one character
RECURSIVE Like(_, _)
Like(pattern, text) ==
    IF pattern = << >> THEN text = << >>
    ELSE IF Head(pattern) = "%"
    THEN Like(Tail(pattern), text) \/ (text # << >> /\ Like(pattern, Tail(text)))
    ELSE /\ text # << >>
         /\ (Head(pattern) = "_" \/ Fold(Head(pattern)) = Fold(Head(text)))
         /\ Like(Tail(pattern), Tail(text))

\* WHERE 1=1 [AND topic = ?] [AND author = ?] [AND content LIKE ?]: a clause
\* is added for each parameter that is given and not empty; the pattern is
\* f"%{search}%"
Where(row, q) ==
    /\ ("topic" \in DOMAIN q /\ q.topic # "") => row.topic = q.topic
    /\ ("author" \in DOMAIN q /\ q.author # "") =>
          (row.author # None /\ row.author = q.author)
    /\ ("search" \in DOMAIN q /\ q.search # << >>) =>
          Like(<<"%">> \o q.search \o <<"%">>, row.content)

\* GET /notes?topic=&author=&search=, through response_model=List[NoteResponse]
ReadNotesFiltered(q) ==
    LET found == {i \in DOMAIN notes : Where(notes[i], q)}
    IN  /\ resp' = IF \A i \in found : ValidNoteResponse(notes[i])
                   THEN [op |-> "read_notes", id |-> 0, key |-> None, status |-> 200,
                         body |-> OrderByCreatedDesc(notes, found), query |-> q]
                   ELSE [op |-> "read_notes", id |-> 0, key |-> None, status |-> 500,
                         body |-> Detail("Internal Server Error"), query |-> q]
        /\ UNCHANGED <<notes, nextId, clock, voteOk, vreq, dbLock, raced, deleted,
                       chemVars, limiterVars>>

NotesListNext ==
    \/ \E body \in CreateBodies : CreateNote(NoteCreateModel(body))
    \/ \E q \in ListQueries : ReadNotesFiltered(q)

InitNotesList == NotesInit /\ ChemIdle /\ LimiterIdle

SpecNotesList == InitNotesList /\ [][NotesListNext]_vars

----------------------------------------------------------------------------
(* Claims about creating and listing notes (SpecNotesList) *)

\* C21: for every valid creation payload the create returns the record, whose
\* author is "Anonymous" when the author field is omitted and the supplied
\* author otherwise.
C21_AuthorDefaultOrEchoed ==
    [][\A body \in CreateBodies :
          CreateNote(NoteCreateModel(body)) =>
              /\ resp'.status = 201
              /\ resp'.body.author = IF "author" \in DOMAIN body
                                     THEN body.author ELSE DefaultAuthor
      ]_vars

\* text holds s as a run of consecutive characters, letters compared as LIKE
\* compares them
Contains(text, s) ==
    \E k \in 0..(Len(text) - Len(s)) :
        \A j \in 1..Len(s) : Fold(text[k + j]) = Fold(s[j])

\* the notes a listing with query q is to return: the topic and the author
\* are the given ones and the content holds the search string
Wanted(row, q) ==
    /\ ("topic" \in DOMAIN q /\ q.topic # "") => row.topic = q.topic
    /\ ("author" \in DOMAIN q /\ q.author # "") => row.author = q.author
    /\ "search" \in DOMAIN q => Contains(row.content, q.search)

\* C23: a listing answers with exactly the stored notes whose content holds
\* the search string as a substring, whatever the search string (% and _
\* included), and whose topic and author are the given ones.
C23_SearchIsSubstring ==
    (resp.op = "read_notes" /\ resp.status = 200) =>
        {resp.body[k] : k \in 1..Len(resp.body)} =
            {notes[i] : i \in {j \in DOMAIN notes : Wanted(notes[j], resp.query)}}

----------------------------------------------------------------------------
(* Notes service: GET /notes/top, on a table large enough for its LIMIT *)

\* src/app/routers/notes.py:82  LIMIT 10
TopLimit == 10

\* notes the table may hold when the requests start: one less than the
\* LIMIT up to this many
MaxTopNotes == 11

\* the table after n POST /notes {"topic": "T", "content": "C"}
RECURSIVE Stored(_)
Stored(n) ==
    IF n = 0 THEN << >>
    ELSE SqlInsert(Stored(n - 1), NewId(Stored(n - 1), n - 1), "T", "C", DefaultAuthor, n)

\* the statement does not say in which order rows with equal votes come: the
\* sorter may leave them in the order of the table scan or turn them round
TieOrders == {"rowid ascending", "rowid descending"}

\* ORDER BY votes DESC
RECURSIVE OrderByVotesDesc(_, _, _)
OrderByVotesDesc(db, ids, tie) ==
    IF ids = {} THEN << >>
    ELSE LET most == {i \in ids : \A j \in ids : db[j].votes <= db[i].votes}
             next == IF tie = "rowid ascending"
                     THEN CHOOSE i \in most : \A j \in most : i <= j
                     ELSE CHOOSE i \in most : \A j \in most : j <= i
         IN  <<db[next]>> \o OrderByVotesDesc(db, ids \ {next}, tie)

\* (mutant) the statement has no LIMIT
Limit_All(rows, n) == rows

\* LIMIT n
Limit(rows, n) == IF Len(rows) <= n THEN rows ELSE SubSeq(rows, 1, n)

\* GET /notes/top, through response_model=List[NoteResponse]
GetTopNotes ==
    /\ \E tie \in TieOrders :
          LET rows == Limit(OrderByVotesDesc(notes, DOMAIN notes, tie), TopLimit)
          IN  resp' = IF \A k \in 1..Len(rows) : ValidNoteResponse(rows[k])
                      THEN [op |-> "top", id |-> 0, key |-> None, status |-> 200,
                            body |-> rows]
                      ELSE ServerError("top", 0)
    /\ UNCHANGED <<notes, nextId, clock, voteOk, vreq, dbLock, raced, deleted,
                   chemVars, limiterVars>>

TopNotesInit ==
    /\ \E n \in (TopLimit - 1)..MaxTopNotes :
          /\ notes = Stored(n)
          /\ nextId = n
          /\ clock = n
          /\ voteOk = [i \in 1..n |-> 0]
    /\ resp = [op |-> "start", id |-> 0, key |-> None, status |-> 0, body |-> Detail("")]
    /\ vreq = << >>
    /\ dbLock = NoSlot
    /\ raced = FALSE
    /\ deleted = {}

TopNotesNext ==
    \/ \E id \in {1, TopLimit, MaxTopNotes} : VoteNote(id)
    \/ \E id \in {1, 2} : DeleteNote(id, API_KEY)
    \/ GetTopNotes

InitTopNotes == TopNotesInit /\ ChemIdle /\ LimiterIdle

SpecTopNotes == InitTopNotes /\ [][TopNotesNext]_vars

----------------------------------------------------------------------------
(* Claims about GET /notes/top (SpecTopNotes) *)

\* the ids of the records of a list response
Returned(body) == {body[k].id : k \in 1..Len(body)}

----------------------------------------------------------------------------
(* Requests with and without credentials, on both services *)

AccessNext ==
    \/ cresp = NoRequest /\ \E note \in PlainNoteCreates : CreateNote(note)
    \/ cresp = NoRequest /\ \E id \in NoteIds, key \in PresentedKeys : DeleteNote(id, key)
    \/ \E key \in ChemKeys, id \in AtomIds : GetAtom(key, id)
    \/ \E key \in ChemKeys, id \in AtomIds, upd \in ThinAtomUpdates : UpdateAtom(key, id, upd)
    \/ SendResponse

InitAccess == NotesInit /\ ChemInit({<< >>, EnvSetting}) /\ LimiterIdle

SpecAccess == InitAccess /\ [][AccessNext]_vars

----------------------------------------------------------------------------
(* Claims about refused requests (SpecAccess) *)

\* what the caller sees of a response
Outcome(reply) == <<reply.status, reply.body>>

\* C24: a delete without X-API-Key and a delete of the same note with a key
\* that is not the admin key are both refused with 401 or 403, and the two
\* refusals differ.
C24_NoKeyDistinctFromWrongKey ==
    [][(/\ resp.op = "delete" /\ resp.key = None
        /\ resp'.op = "delete" /\ resp'.key \notin {None, API_KEY}
        /\ resp'.id = resp.id) =>
           /\ resp.status \in {401, 403}
           /\ resp'.status \in {401, 403}
           /\ Outcome(resp) # Outcome(resp')
      ]_vars

\* C24 witness: a stored note's delete with a wrong key is refused as not
\* validated, and the note is still stored
C24_Witness ==
    /\ resp.op = "delete" /\ resp.key = "wrong-key" /\ resp.id \in DOMAIN notes
    /\ resp.status = 403 /\ resp.body = Detail("Could not validate credentials")

\* C26: a request that lacks the credential is refused by what it presents
\* alone: a delete of a note without the admin key, and a get or an update of
\* an atom without a key of the role, get the 401 or 403 of the credential
\* check whatever the tables hold, whether the id exists or not.
C26_CredentialBeforeExistence ==
    /\ (resp.op = "delete" /\ resp.key # API_KEY) =>
          /\ resp.status = 403
          /\ resp.body = Detail(IF resp.key = None THEN "Not authenticated"
                                ELSE "Could not validate credentials")
    /\ (cresp.op \in {"get_atom", "update_atom"} /\ cresp.key = None) =>
          /\ cresp.status = 401
          /\ cresp.body = Detail("API Key required. Please provide X-API-Key header")
    /\ (cresp.op \in {"get_atom", "update_atom"} /\ cresp.key # None
            /\ cresp.key \notin DOMAIN apiKeys) =>
          /\ cresp.status = 403
          /\ cresp.body = Detail("Invalid API Key")
    /\ (cresp.op = "update_atom" /\ cresp.key \in DOMAIN apiKeys
            /\ apiKeys[cresp.key].role # "admin") =>
          /\ cresp.status = 403
          /\ cresp.body = Detail("Admin access required for this operation")

\* C26 witness: a delete with a wrong key of a note that is not stored and
\* an update by a user key of an atom that is not stored are both refused
\* with 403, not answered 404
C26_Witness ==
    /\ resp.op = "delete" /\ resp.key = "wrong-key" /\ resp.id \notin DOMAIN notes
    /\ resp.status = 403
    /\ DOMAIN notes # {}
    /\ cresp.op = "update_atom" /\ cresp.key = "chemapi-user1-key-2024"
    /\ cresp.id \notin DOMAIN atoms
    /\ cresp.status = 403

----------------------------------------------------------------------------
(* Claims about a request racing a delete (SpecNotesConc) *)

\* C25: a vote on a note that runs together with the delete of the note ends
\* with the refreshed record (200) or with NotFound (404), wherever the delete
\* falls between the vote's existence check, its UPDATE and its read-back;
\* stated of the votes answered when no request is in flight any more.
C25_RacingDeleteEndsIn200Or404 ==
    (/\ resp.op = "vote" /\ resp.id \in deleted
     /\ dbLock = NoSlot
     /\ \A s \in VoteSlots : vreq[s].pc = "idle") =>
        resp.status \in {200, 404}

----------------------------------------------------------------------------
(* Claims about rejected calls of the rate limiter (SpecLimiter) *)

\* new holds the last entries of old and nothing else
SuffixOf(new, old) ==
    /\ Len(new) <= Len(old)
    /\ new = SubSeq(old, Len(old) - Len(new) + 1, Len(old))

\* C27: a rejected check_rate_limit call records no timestamp: the list of its
\* key holds afterwards only entries it held before; a key at its limit is
\* admitted by a call made 60 seconds or more after its oldest counted
\* request, whatever calls were rejected before; and a call leaves the lists
\* and the admitted calls of every other key as they were.
C27_RejectedCallsLeaveNoTrace ==
    [][calls' = calls + 1 =>
          LET key == ret'.key
              old == Get(requests, key)
          IN  /\ ret'.result = FALSE => SuffixOf(Get(requests', key), old)
              /\ (/\ old # << >>
                  /\ Len(old) >= requests_per_minute
                  /\ ret'.at >= old[1] + WindowSeconds) => ret'.result = TRUE
              /\ \A k \in LimiterKeys \ {key} :
                    /\ Get(requests', k) = Get(requests, k)
                    /\ admitted'[k] = admitted[k]
      ]_vars

\* C27 witness: a key with a limit of one was admitted at 0, rejected twice,
\* and admitted again by its call at 60, while the other key was admitted in
\* between
C27_Witness ==
    /\ requests_per_minute = 1
    /\ ret = [key |-> "admin", at |-> 60, result |-> TRUE]
    /\ admitted["admin"] = <<0, 60>>
    /\ Len(admitted["user1"]) = 1
    /\ calls = 5

----------------------------------------------------------------------------
(* Claims about the uniqueness check of update_atom (SpecAtoms) *)

\* the payload sets symbol or atomic_number, and each of the two it sets to
\* the value the atom holds
SetsOwnValues(db, id, upd) ==
    /\ {"symbol", "atomic_number"} \cap DOMAIN upd # {}
    /\ \A f \in {"symbol", "atomic_number"} \cap DOMAIN upd : upd[f] = db[id][f]

\* C28: an update_atom of a stored atom by an admin whose payload sets symbol
\* or atomic_number to the value this atom already holds is not answered 409:
\* it is answered 200 with the atom, which keeps the value and takes the other
\* fields of the payload.
C28_OwnValueIsNoConflict ==
    [][ (/\ cresp'.op = "update_atom"
         /\ ByAdmin(cresp')
         /\ cresp'.id \in DOMAIN atoms
         /\ SetsOwnValues(atoms, cresp'.id, cresp'.upd)) =>
            /\ cresp'.status = 200
            /\ cresp'.body = atoms'[cresp'.id]
            /\ \A f \in {"symbol", "atomic_number"} :
                  atoms'[cresp'.id][f] = atoms[cresp'.id][f]
            /\ \A f \in DOMAIN cresp'.upd : atoms'[cresp'.id][f] = cresp'.upd[f]
      ]_vars

\* C28 witness: atom 2 was updated to the symbol and the atomic number it
\* held, with a new name, while atom 1 holds others
C28_Witness ==
    /\ cresp.op = "update_atom" /\ cresp.status = 200 /\ cresp.id = 2
    /\ cresp.upd = [symbol |-> "C", name |-> "Nx", atomic_number |-> 6]
    /\ atoms[2].symbol = "C" /\ atoms[2].atomic_number = 6 /\ atoms[2].name = "Nx"
    /\ atoms[1].symbol # "C"

----------------------------------------------------------------------------
(* Chemistry API: the credential store loaded from the API_KEYS setting *)

\* entries a setting holds at most
MaxEntries == 2

\* entries of a setting: of three parts, of three parts for the same key and
\* with blanks around, of two parts, of four parts, empty, of three parts with
\* an empty name and role, and of three parts for a key of the default set
EntryTexts ==
    {<<"env-root", ":", "root", ":", "admin">>,
     <<" ", "env-root", ":", "ops", ":", "user", " ">>,
     <<"env-guest", ":", "guest">>,
     <<"env-guest", ":", "guest", ":", "user", ":", "x">>,
     << >>,
     <<"env-guest", ":", ":">>,
     <<"chemapi-admin-key-2024", ":", "x", ":", "user">>}

\* the settings of n entries or fewer, joined with commas
RECURSIVE Settings(_)
Settings(n) ==
    IF n = 1 THEN EntryTexts
    ELSE Settings(n - 1) \cup
         {setting \o <<",">> \o entry : setting \in Settings(n - 1), entry \in EntryTexts}

\* GET /api/v1/auth-test with keys of the default set and of the settings
LoadKeysNext ==
    \/ \E key \in {None, "chemapi-admin-key-2024", "chemapi-user1-key-2024", "env-root",
                   "env-guest"} : AuthTest(key)
    \/ SendResponse

InitLoadKeys == NotesInit /\ ChemInit(Settings(MaxEntries)) /\ LimiterIdle

SpecLoadKeys == InitLoadKeys /\ [][LoadKeysNext]_vars

----------------------------------------------------------------------------
(* Claims about load_api_keys (SpecLoadKeys) *)

\* the parts of the i-th comma-separated entry of the setting
PartsOf(setting, i) == SplitOn(Strip(SplitOn(setting, ",")[i]), ":")

\* the entries of exactly three colon-separated parts
WellFormed(setting) ==
    {i \in 1..Len(SplitOn(setting, ",")) : Len(PartsOf(setting, i)) = 3}

\* C29: when the API_KEYS setting holds an entry of exactly three
\* colon-separated parts, the loaded store maps exactly the keys of such
\* entries, each to the name and role of the last entry for it, and holds no
\* default key that no entry names; otherwise it is the default key set.
C29_LoadedKeys ==
    LET wf == WellFormed(env_keys)
        KeyOf(i) == Text(PartsOf(env_keys, i)[1])
    IN  IF wf = {}
        THEN apiKeys = DEFAULT_API_KEYS
        ELSE /\ DOMAIN apiKeys = {KeyOf(i) : i \in wf}
             /\ \A k \in DOMAIN apiKeys :
                   LET last == CHOOSE i \in wf :
                                   KeyOf(i) = k /\ \A j \in wf : KeyOf(j) = k => j <= i
                   IN  apiKeys[k] = [name |-> Text(PartsOf(env_keys, last)[2]),
                                     role |-> Text(PartsOf(env_keys, last)[3])]
             /\ \A k \in DOMAIN DEFAULT_API_KEYS :
                   k \in DOMAIN apiKeys => \E i \in wf : KeyOf(i) = k

\* C29 witness: of two entries for one key the later one was loaded, and the
\* default admin key is refused
C29_Witness ==
    /\ env_keys = <<"env-root", ":", "root", ":", "admin", ",",
                    " ", "env-root", ":", "ops", ":", "user", " ">>
    /\ apiKeys = [k \in {"env-root"} |-> [name |-> "ops", role |-> "user"]]
    /\ cresp.op = "auth_test" /\ cresp.key = "chemapi-admin-key-2024"
    /\ cresp.status = 403

----------------------------------------------------------------------------
(* Routing: a request goes to the first registered route whose method and  *)
(* path match it. Paths are sequences of segments, without the /api/v1     *)
(* prefix of the chemistry routers.                                        *)

Lit(segment) == [lit |-> segment]

\* {name}: matches any one segment; the handler's annotation converts it
Param(name) == [param |-> name]

\* the routes of src/routers/reactions.py in the order of their decorators
ReactionsRoutes ==
    <<[method |-> "GET", path |-> <<Lit("reactions")>>, endpoint |-> "get_reactions"],
      [method |-> "GET", path |-> <<Lit("reactions"), Param("reaction_id")>>,
       endpoint |-> "get_reaction"],
      [method |-> "GET",
       path |-> <<Lit("reactions"), Param("reaction_id"), Lit("participants")>>,
       endpoint |-> "get_reaction_participants"],
      [method |-> "PUT", path |-> <<Lit("reactions"), Param("reaction_id")>>,
       endpoint |-> "update_reaction"],
      [method |-> "GET",
       path |-> <<Lit("reactions"), Lit("search"), Lit("by-molecule"), Param("molecule_id")>>,
       endpoint |-> "search_reactions_by_molecule"],
      [method |-> "GET", path |-> <<Lit("reactions"), Lit("types")>>,
       endpoint |-> "get_reaction_types"]>>

\* the routes of src/app/routers/notes.py in the order of their decorators
NotesRoutes ==
    <<[method |-> "POST", path |-> <<Lit("notes")>>, endpoint |-> "create_note"],
      [method |-> "GET", path |-> <<Lit("notes")>>, endpoint |-> "read_notes"],
      [method |-> "GET", path |-> <<Lit("notes"), Lit("top")>>, endpoint |-> "get_top_notes"],
      [method |-> "GET", path |-> <<Lit("notes"), Param("note_id")>>, endpoint |-> "read_note"],
      [method |-> "PUT", path |-> <<Lit("notes"), Param("note_id")>>,
       endpoint |-> "update_note"],
      [method |-> "POST", path |-> <<Lit("notes"), Param("note_id"), Lit("pin")>>,
       endpoint |-> "pin_note"],
      [method |-> "DELETE", path |-> <<Lit("notes"), Param("note_id")>>,
       endpoint |-> "delete_note"],
      [method |-> "POST", path |-> <<Lit("notes"), Param("note_id"), Lit("vote")>>,
       endpoint |-> "vote_note"]>>

\* the path regex of a route: a literal segment matches itself, a parameter
\* any segment
MatchPath(pattern, path) ==
    /\ Len(pattern) = Len(path)
    /\ \A i \in 1..Len(path) : "param" \in DOMAIN pattern[i] \/ pattern[i].lit = path[i]

\* the endpoint of the first route that matches
Endpoint(routes, method, path) ==
    LET hits == {i \in 1..Len(routes) :
                    routes[i].method = method /\ MatchPath(routes[i].path, path)}
    IN  IF hits = {} THEN "none"
        ELSE routes[CHOOSE i \in hits : \A j \in hits : i <= j].endpoint

\* the segments that reaction_id: int and note_id: int accept, in order of
\* their values
PathInts == <<"1", "2", "3">>

IsInt(segment) == \E n \in 1..Len(PathInts) : PathInts[n] = segment

ToInt(segment) == CHOOSE n \in 1..Len(PathInts) : PathInts[n] = segment

\* the paths of the GET requests
ReactionsPaths == {<<"reactions", "types">>, <<"reactions", "1">>, <<"reactions", "2">>,
                   <<"types">>}

NotesPaths == {<<"notes">>, <<"notes", "top">>, <<"notes", "1">>, <<"notes", "latest">>}

RouteReply(endpoint, path, key, status, body) ==
    [op |-> endpoint, id |-> 0, key |-> key, upd |-> << >>, status |-> status,
     body |-> body, path |-> path]

\* db.query(Reaction.reaction_type).distinct().all() and the answer built of it
ReactionTypes(db) ==
    LET types == {db[i].reaction_type : i \in DOMAIN db}
    IN  [reaction_types |-> types \ {None, ""}, count |-> Cardinality(types)]

\* a GET request to the reactions router: the route, then the dependency
\* require_user, then the path parameter, then the handler's body
ReactionsGet(key, path) ==
    /\ cresp = NoRequest
    /\ Endpoint(ReactionsRoutes, "GET", path) \in {"none", "get_reaction", "get_reaction_types"}
    /\ LET endpoint == Endpoint(ReactionsRoutes, "GET", path)
           auth == RequireUser(apiKeys, key)
       IN  cresp' =
              IF endpoint = "none"
              THEN RouteReply(endpoint, path, key, 404, Detail("Not Found"))
              ELSE IF auth.status # 200
              THEN RouteReply(endpoint, path, key, auth.status, Detail(auth.detail))
              ELSE IF endpoint = "get_reaction_types"
              THEN RouteReply(endpoint, path, key, 200, ReactionTypes(reactions))
              ELSE IF ~IsInt(path[2])
              THEN RouteReply(endpoint, path, key, 422, Detail("int_parsing"))
              ELSE IF First(reactions, ToInt(path[2])) = NoRow
              THEN RouteReply(endpoint, path, key, 404, Detail("not found"))
              ELSE RouteReply(endpoint, path, key, 200, First(reactions, ToInt(path[2])))
    /\ UNCHANGED <<env_keys, apiKeys, atoms, molecules, reactions, areq, notesVars, limiterVars>>

\* a GET request to the notes router
NotesGet(path) ==
    LET endpoint == Endpoint(NotesRoutes, "GET", path)
    IN  IF endpoint = "get_top_notes" THEN GetTopNotes
        ELSE IF endpoint = "read_notes" THEN ReadNotes
        ELSE IF endpoint = "read_note" /\ IsInt(path[2]) THEN ReadNote(ToInt(path[2]))
        ELSE /\ resp' = [op |-> endpoint, id |-> 0, key |-> None,
                         status |-> IF endpoint = "none" THEN 404 ELSE 422,
                         body |-> Detail(IF endpoint = "none" THEN "Not Found"
                                         ELSE "int_parsing")]
             /\ UNCHANGED <<notes, nextId, clock, voteOk, vreq, dbLock, raced, deleted,
                            chemVars, limiterVars>>

RoutingNext ==
    \/ cresp = NoRequest /\ \E note \in PlainNoteCreates : CreateNote(note)
    \/ cresp = NoRequest /\ \E path \in NotesPaths : NotesGet(path)
    \/ \E key \in {None, "chemapi-user1-key-2024"}, path \in ReactionsPaths :
          ReactionsGet(key, path)
    \/ \E id \in ReactionIds, upd \in Payloads([reaction_type : {"synthesis"}]) :
          UpdateReaction("chemapi-admin-key-2024", id, upd)
    \/ SendResponse

InitRouting == NotesInit /\ ChemIdle /\ LimiterIdle

SpecRouting == InitRouting /\ [][RoutingNext]_vars

----------------------------------------------------------------------------
(* Claims about routing (SpecRouting) *)

\* C30: a GET /api/v1/reactions/types with a valid key is handled by
\* get_reaction_types and answered 200 with the distinct reaction types, and a
\* GET /notes/top is handled by get_top_notes.
C30_LiteralRoutesReached ==
    /\ Endpoint(NotesRoutes, "GET", <<"notes", "top">>) = "get_top_notes"
    /\ (/\ "path" \in DOMAIN cresp
        /\ cresp.path = <<"reactions", "types">>
        /\ Resolves(cresp.key)) =>
           /\ cresp.op = "get_reaction_types"
           /\ cresp.status = 200
           /\ cresp.body = ReactionTypes(reactions)

====
